---- MODULE Spec2Model ----
(***************************************************************************)
(* A model of CommentScraper (src/CommentScraper.py): one CommentScraper   *)
(* instance, the calls of scrape_subreddit made on it, the work-list loop  *)
(* of _retrieve_post_comment, the worker pool of _retrieve_post_comments,  *)
(* the writer _save_comments and the file system it writes to.             *)
(*                                                                         *)
(* A step of the model is the code between two blocking calls (a network   *)
(* fetch of a listing, of a post's comments, of a placeholder's comments,  *)
(* or the opening of the output file).                                     *)
(***************************************************************************)
EXTENDS Integers, Sequences, FiniteSets

\* ---------------------------------------------------------------- bounds
\* Nodes of one post's comment forest (comments, placeholders, others).
MaxNodes == 3
\* Posts of one listing.
MaxPosts == 2
\* Calls of scrape_subreddit on the one instance.
MaxCalls == 2
\* Times one node may be taken from a work list (a placeholder that yields
\* itself is taken again and again; the model stops following it here).
MaxResolve == 2
\* Largest value cpu_count() returns.
MaxCpu == 4

\* ------------------------------------------------------ program constants
\* scrape_subreddit's default upvote_threshold.
DefaultThreshold == 5
\* The margin _retrieve_post_comments keeps off the pool: Pool(cpu_count() - 2).
ReservedCpus == 2

\* ------------------------------------------------------------ input sets
Thresholds == {DefaultThreshold - 1, DefaultThreshold}
Scores == {DefaultThreshold - 1, DefaultThreshold, DefaultThreshold + 1}
NL == "\n"
SP == " "
\* Comment bodies, as sequences of characters.
Bodies == { <<"h", "i", NL, NL, "w">>, <<"a", SP, NL, NL, NL, "b">> }
SortBys == {"top", "new", "hot", "best"}
TimeFilters == {"year", "decade"}

\* Python's None, for a field of a row: a field is <<>> or <<value>>.
None == <<>>
Some(x) == <<x>>

\* The path argument: no path (None), or the path of the __main__ block.
NoPath == "None"
GivenPath == "data/python.csv"
\* The file name _save_comments makes up when no path is passed.
DefaultPath == "python_<now>.csv"
Paths == {GivenPath, DefaultPath}
SubredditName == "python"

\* ------------------------------------------------------- comment forests
\* A forest is [node, parent]: node[i] is what the API hands out as node i,
\* parent[i] = 0 for a node of post.comments.list(), and parent[i] = m for
\* a node that resolving placeholder m yields. A placeholder with reyield
\* yields itself again after its children.
NodeTypes ==
    [kind : {"Comment"}, score : Scores, body : Bodies, reyield : {FALSE}]
    \cup [kind : {"MoreComments"}, score : {0}, body : {<<>>}, reyield : BOOLEAN]
    \cup [kind : {"Other"}, score : {0}, body : {<<>>}, reyield : {FALSE}]

EmptyForest == [node |-> <<>>, parent |-> <<>>]

\* Where a further node of forest f can come from: the post's own list (0),
\* or a placeholder of f.
ParentsIn(f) ==
    {0} \cup { m \in 1..Len(f.node) : f.node[m].kind = "MoreComments" }

RECURSIVE ForestsOfSize(_)
ForestsOfSize(n) ==
    IF n = 0 THEN {EmptyForest}
    ELSE { [node |-> Append(x[1].node, x[2]), parent |-> Append(x[1].parent, x[3])] :
             x \in { y \in ForestsOfSize(n - 1) \X NodeTypes \X (0..(n - 1)) :
                       y[3] \in ParentsIn(y[1]) } }

NodeIds(f) == 1..Len(f.node)

RECURSIVE IdsFrom(_, _, _)
\* The ids i..n whose parent is p, ascending.
IdsFrom(f, p, i) ==
    IF i > Len(f.node) THEN <<>>
    ELSE (IF f.parent[i] = p THEN <<i>> ELSE <<>>) \o IdsFrom(f, p, i + 1)

\* post.comments.list()
CommentsList(f) == IdsFrom(f, 0, 1)

\* obj.comments().list(), or obj.comments()
MoreCommentsList(f, m) ==
    IdsFrom(f, m, 1) \o (IF f.node[m].reyield THEN <<m>> ELSE <<>>)

\* The forests of the posts a listing of the whole-program model holds.
OneNode(nd) == [node |-> <<nd>>, parent |-> <<0>>]
CommentOf(s) ==
    [kind |-> "Comment", score |-> s, body |-> <<"h", "i">>, reyield |-> FALSE]
Placeholder == [kind |-> "MoreComments", score |-> 0, body |-> <<>>, reyield |-> FALSE]
OtherNode == [kind |-> "Other", score |-> 0, body |-> <<>>, reyield |-> FALSE]
PoolForests ==
    { EmptyForest,
      OneNode(CommentOf(DefaultThreshold + 1)),
      OneNode(CommentOf(DefaultThreshold)),
      OneNode(OtherNode),
      [node |-> <<Placeholder, CommentOf(DefaultThreshold + 1)>>, parent |-> <<0, 1>>] }

\* A post: its title (its place in the listing) and its forest.
Post(i, f) == [title |-> i, forest |-> f]

\* ------------------------------------------------------- strip_newlines
IsSpace(c) == c \in {SP, NL, "\t"}

RECURSIVE SubNewlines(_)
\* re.sub(r"\n[\n]?", " ", comment)
SubNewlines(s) ==
    IF s = <<>> THEN <<>>
    ELSE IF Head(s) = NL
         THEN IF Len(s) >= 2 /\ s[2] = NL
              THEN <<SP>> \o SubNewlines(SubSeq(s, 3, Len(s)))
              ELSE <<SP>> \o SubNewlines(Tail(s))
         ELSE <<Head(s)>> \o SubNewlines(Tail(s))

RECURSIVE DropSpaces(_)
DropSpaces(s) ==
    IF s # <<>> /\ IsSpace(Head(s)) THEN DropSpaces(Tail(s)) ELSE s

RECURSIVE SubWhitespace(_)
\* re.sub(r"\s+", r" ", comment)
SubWhitespace(s) ==
    IF s = <<>> THEN <<>>
    ELSE IF IsSpace(Head(s))
         THEN <<SP>> \o SubWhitespace(DropSpaces(s))
         ELSE <<Head(s)>> \o SubWhitespace(Tail(s))

strip_newlines(comment) == SubWhitespace(SubNewlines(comment))

\* ----------------------------------------------------------------- rows
Author == "A"

\* A slip: the row of a post without comments carries a score of 0.
SentinelRowZeroUpvotes(title) ==
    [post |-> title, author |-> None, comment |-> None, upvotes |-> Some(0)]

SentinelRow(title) ==
    [post |-> title, author |-> None, comment |-> None, upvotes |-> None]

CommentText(nd, strip) == IF strip THEN strip_newlines(nd.body) ELSE nd.body

CommentRow(title, nd, strip) ==
    [post |-> title, author |-> Some(Author),
     comment |-> Some(CommentText(nd, strip)), upvotes |-> Some(nd.score)]

\* A slip: the threshold itself passes.
QualifiesAtThreshold(score, upvote_threshold) == score >= upvote_threshold

\* Only save comment text if score is higher than threshold.
Qualifies(score, upvote_threshold) == score > upvote_threshold

\* A slip: what the placeholder yields is dropped.
ExtendListDropping(comment_list, obj_list) == comment_list

\* comment_list.extend(obj_list)
ExtendList(comment_list, obj_list) == comment_list \o obj_list

\* ------------------------------------------- _retrieve_post_comment
\* The flattening of one post: the post, its work list, and how often each
\* node has been taken from the work list.
NoFlatten ==
    [title |-> 0, forest |-> EmptyForest, list |-> <<>>,
     visits |-> <<>>, started |-> FALSE]

\* comment_list = post.comments.list()
StartFlatten(post) ==
    [title |-> post.title, forest |-> post.forest,
     list |-> CommentsList(post.forest),
     visits |-> [i \in NodeIds(post.forest) |-> 0], started |-> TRUE]

\* A slip: a post without comments leaves no row.
RowsAtStartNoSentinel(post, rows) == rows

\* The rows after the test on the initial comment list.
RowsAtStart(post, rows) ==
    IF CommentsList(post.forest) = <<>>
    THEN Append(rows, SentinelRow(post.title))
    ELSE rows

Popped(fl) == fl.list[Len(fl.list)]

\* The object taken from the work list is neither a Comment nor a MoreComments.
IsUnexpected(fl) ==
    fl.forest.node[Popped(fl)].kind \notin {"Comment", "MoreComments"}

\* A slip: the object is skipped and the loop goes on.
UnexpectedObjectSkipped(fl, rows) == [fl |-> fl, rows |-> rows, raised |-> FALSE]

\* What an object that is neither a Comment nor a MoreComments does.
UnexpectedObject(fl, rows) == [fl |-> fl, rows |-> rows, raised |-> TRUE]

\* One turn of the while loop, on the rows of the process that runs it.
StepFlatten(fl, rows, upvote_threshold, strip_comments) ==
    LET obj == Popped(fl)
        rest == SubSeq(fl.list, 1, Len(fl.list) - 1)
        nd == fl.forest.node[obj]
        seen == [fl EXCEPT !.visits[obj] = @ + 1, !.list = rest]
    IN  IF nd.kind = "Comment"
        THEN [fl |-> seen,
              rows |-> IF Qualifies(nd.score, upvote_threshold)
                       THEN Append(rows, CommentRow(fl.title, nd, strip_comments))
                       ELSE rows,
              raised |-> FALSE]
        ELSE IF nd.kind = "MoreComments"
        THEN [fl |-> [seen EXCEPT
                        !.list = ExtendList(rest, MoreCommentsList(fl.forest, obj))],
              rows |-> rows, raised |-> FALSE]
        ELSE UnexpectedObject(seen, rows)

\* ------------------------------------------------------------- files
Absent == [state |-> "absent", header |-> <<>>, rows |-> <<>>]
\* A file some other program wrote.
Foreign == [state |-> "foreign", header |-> <<>>, rows |-> <<>>]
\* What open(path, 'w') leaves before anything is written.
Truncated == [state |-> "csv", header |-> <<>>, rows |-> <<>>]
FieldNames == <<"post", "author", "comment", "upvotes">>
Written(rows) == [state |-> "csv", header |-> FieldNames, rows |-> rows]

\* path = f"{self.subreddit}_{datetime.now()...}.csv" when no path is passed
TargetPath(path) == IF path = NoPath THEN DefaultPath ELSE path

\* fdir of os.path.split(path)
HasDir(path) == path = GivenPath

VARIABLES
    comments,      \* self.comments of the coordinating process
    posts,         \* self.posts: None, or the listing generator
    subreddit,     \* self.subreddit
    pc,            \* where the coordinating process is
    args,          \* the arguments of the call in progress
    fetched,       \* posts the generator has yielded to the call in progress
    cur,           \* sequential mode: the flattening in progress
    tasks,         \* parallel mode: one task per post, in the workers
    cpus,          \* what cpu_count() returned (0: not asked)
    files,         \* the file system: path -> content
    dataDir,       \* whether the directory of GivenPath exists
    result,        \* how the last call ended
    calls,         \* calls made so far
    base,          \* Len(self.comments) when the call in progress began
    unexpected     \* the last call took an unexpected object from a work list

vars == <<comments, posts, subreddit, pc, args, fetched, cur, tasks, cpus, files,
          dataDir, result, calls, base, unexpected>>

NoArgs == [upvote_threshold |-> DefaultThreshold, strip_comments |-> TRUE,
           use_multiprocessing |-> TRUE, path |-> NoPath]

\* __init__, and the file system it finds.
Init ==
    /\ comments = <<>>
    /\ posts = "None"
    /\ subreddit = "None"
    /\ pc = "idle"
    /\ args = NoArgs
    /\ fetched = 0
    /\ cur = NoFlatten
    /\ tasks = <<>>
    /\ cpus = 0
    /\ files = [p \in Paths |-> Absent]
    /\ dataDir \in BOOLEAN
    /\ result = "none"
    /\ calls = 0
    /\ base = 0
    /\ unexpected = FALSE

\* What is left of a call when it returns or raises: its arguments and its
\* locals are gone, the instance's fields stay.
EndCall(how) ==
    /\ pc' = "idle"
    /\ result' = how
    /\ args' = NoArgs
    /\ fetched' = 0
    /\ cur' = NoFlatten
    /\ tasks' = <<>>
    /\ base' = 0

\* Pool(cpu_count() - 2)
PoolSize(cpu_count) == cpu_count - ReservedCpus

\* ------------------------------------------------- scrape_subreddit
\* scrape_subreddit up to the return of _get_posts: the test on the passed
\* path, the two asserts, the lookup of the subreddit, the listing generator.
\* (A quarantined subreddit is opted into and changes nothing here.)
ScrapeSubreddit ==
    /\ pc = "idle"
    /\ calls < MaxCalls
    /\ calls' = calls + 1
    /\ unexpected' = FALSE
    /\ cpus' = 0
    /\ UNCHANGED <<comments, files, dataDir>>
    /\ \E path \in {NoPath, GivenPath}, sort_by \in SortBys,
          time_filter \in TimeFilters, found \in BOOLEAN :
        IF path # NoPath /\ files[path].state # "absent"
        THEN /\ EndCall("FileExistsError")
             /\ UNCHANGED <<posts, subreddit>>
        ELSE IF sort_by \notin {"top", "new", "hot"}
                \/ time_filter \notin {"all", "day", "month", "week", "year", "hour"}
        THEN /\ EndCall("AssertionError")
             /\ UNCHANGED <<posts, subreddit>>
        ELSE IF ~found
        THEN /\ EndCall("Exception: does not exist")
             /\ subreddit' = SubredditName
             /\ UNCHANGED posts
        ELSE \E t \in Thresholds, strip \in BOOLEAN, mp \in BOOLEAN :
             /\ subreddit' = SubredditName
             /\ posts' = "generator"
             /\ args' = [upvote_threshold |-> t, strip_comments |-> strip,
                         use_multiprocessing |-> mp, path |-> path]
             /\ pc' = IF mp THEN "startpool" ELSE "retrieve"
             /\ base' = Len(comments)
             /\ result' = "running"
             /\ fetched' = 0
             /\ cur' = NoFlatten
             /\ tasks' = <<>>

\* ------------------------------------ _retrieve_post_comments, sequential
\* The for loop finds the generator exhausted: _retrieve_post_comments returns.
SeqExhausted ==
    /\ pc = "retrieve"
    /\ cur.list = <<>>
    /\ pc' = "save"
    /\ UNCHANGED <<comments, posts, subreddit, args, fetched, cur, tasks, cpus,
                   files, dataDir, result, calls, base, unexpected>>

\* The for loop takes the next post the generator yields, with a forest of
\* F, and _retrieve_post_comment runs up to its while loop.
SeqEnter(F) ==
    /\ pc = "retrieve"
    /\ cur.list = <<>>
    /\ fetched < MaxPosts
    /\ fetched' = fetched + 1
    /\ \E f \in F :
        /\ cur' = StartFlatten(Post(fetched + 1, f))
        /\ comments' = RowsAtStart(Post(fetched + 1, f), comments)
    /\ UNCHANGED <<posts, subreddit, pc, args, tasks, cpus, files, dataDir,
                   result, calls, base, unexpected>>

SeqNextPost == SeqEnter(PoolForests)

\* One turn of the while loop in the coordinating process.
SeqLoopStep ==
    /\ pc = "retrieve"
    /\ cur.list # <<>>
    /\ cur.visits[Popped(cur)] < MaxResolve
    /\ unexpected' = (unexpected \/ IsUnexpected(cur))
    /\ LET r == StepFlatten(cur, comments, args.upvote_threshold, args.strip_comments)
       IN  IF r.raised
           THEN /\ EndCall("Exception: unexpected object")
                /\ comments' = r.rows
           ELSE /\ cur' = r.fl
                /\ comments' = r.rows
                /\ UNCHANGED <<pc, result, args, fetched, tasks, base>>
    /\ UNCHANGED <<posts, subreddit, cpus, files, dataDir, calls>>

\* -------------------------------------- _retrieve_post_comments, parallel
\* A task of the pool: one post, and the copy of self.comments that the
\* pickled bound method carries into the worker process.
NewTask(rows) == [fl |-> NoFlatten, rows |-> rows, status |-> "pending"]

\* The list of arguments is built (the generator is run to its end), then
\* the pool, and starmap hands the tasks to it.
StartPool ==
    /\ pc = "startpool"
    /\ \E k \in 0..MaxPosts, n \in 1..MaxCpu :
        /\ fetched' = k
        /\ cpus' = n
        /\ IF PoolSize(n) < 1
           THEN /\ EndCall("ValueError")
           ELSE /\ pc' = "pool"
                /\ tasks' = [i \in 1..k |-> NewTask(comments)]
                /\ UNCHANGED <<result, args, cur, base>>
    /\ UNCHANGED <<comments, posts, subreddit, files, dataDir, calls, unexpected>>

Running == { i \in 1..Len(tasks) : tasks[i].status = "running" }

\* A free worker takes the next task; _retrieve_post_comment runs up to its
\* while loop in the worker.
WorkerTake ==
    /\ pc = "pool"
    /\ Cardinality(Running) < PoolSize(cpus)
    /\ \E i \in 1..Len(tasks), f \in PoolForests :
        /\ tasks[i].status = "pending"
        /\ \A j \in 1..(i - 1) : tasks[j].status # "pending"
        /\ tasks' = [tasks EXCEPT ![i] =
                        [fl |-> StartFlatten(Post(i, f)),
                         rows |-> RowsAtStart(Post(i, f), tasks[i].rows),
                         status |-> IF CommentsList(f) = <<>>
                                    THEN "done" ELSE "running"]]
    /\ UNCHANGED <<comments, posts, subreddit, pc, args, fetched, cur, cpus, files,
                   dataDir, result, calls, base, unexpected>>

\* One turn of the while loop in a worker process.
WorkerStep ==
    /\ pc = "pool"
    /\ \E i \in Running :
        /\ tasks[i].fl.visits[Popped(tasks[i].fl)] < MaxResolve
        /\ LET r == StepFlatten(tasks[i].fl, tasks[i].rows,
                                args.upvote_threshold, args.strip_comments)
           IN  /\ tasks' = [tasks EXCEPT ![i] =
                               [fl |-> r.fl, rows |-> r.rows,
                                status |-> IF r.raised THEN "raised"
                                           ELSE IF r.fl.list = <<>> THEN "done"
                                           ELSE "running"]]
               /\ unexpected' = (unexpected \/ IsUnexpected(tasks[i].fl))
    /\ UNCHANGED <<comments, posts, subreddit, pc, args, fetched, cur, cpus, files,
                   dataDir, result, calls, base>>

\* starmap returns once every task has ended, and raises what a task raised.
PoolJoin ==
    /\ pc = "pool"
    /\ \A i \in 1..Len(tasks) : tasks[i].status \in {"done", "raised"}
    /\ IF \E i \in 1..Len(tasks) : tasks[i].status = "raised"
       THEN /\ EndCall("Exception: unexpected object")
            /\ cpus' = 0
       ELSE /\ pc' = "save"
            /\ UNCHANGED <<result, args, fetched, cur, tasks, base, cpus>>
    /\ UNCHANGED <<comments, posts, subreddit, files, dataDir, calls, unexpected>>

\* ---------------------------------------------------- _save_comments
\* What open(path, 'w') and the DictWriter leave in the file.
WriteFile(rows) == IF rows = <<>> THEN Truncated ELSE Written(rows)

SaveComments ==
    /\ pc = "save"
    /\ LET path == TargetPath(args.path)
       IN  /\ dataDir' = (dataDir \/ HasDir(path))
           /\ files' = [files EXCEPT ![path] = WriteFile(comments)]
           /\ EndCall(IF comments = <<>> THEN "IndexError" ELSE "ok")
    /\ cpus' = 0
    /\ UNCHANGED <<comments, posts, subreddit, calls, unexpected>>

\* ------------------------------------------------------ environment
\* Another program creates a file (and its directory).
ExternalCreate ==
    /\ \E p \in Paths :
        /\ files[p].state = "absent"
        /\ files' = [files EXCEPT ![p] = Foreign]
        /\ dataDir' = (dataDir \/ HasDir(p))
    /\ UNCHANGED <<comments, posts, subreddit, pc, args, fetched, cur, tasks, cpus,
                   result, calls, base, unexpected>>

Next ==
    \/ ScrapeSubreddit
    \/ SeqExhausted
    \/ SeqNextPost
    \/ SeqLoopStep
    \/ StartPool
    \/ WorkerTake
    \/ WorkerStep
    \/ PoolJoin
    \/ SaveComments
    \/ ExternalCreate

Spec == Init /\ [][Next]_vars

\* --------------------------------------- the first call on an instance
FirstCall == calls = 0 /\ ScrapeSubreddit

NextOneCall ==
    \/ FirstCall
    \/ SeqExhausted
    \/ SeqNextPost
    \/ SeqLoopStep
    \/ StartPool
    \/ WorkerTake
    \/ WorkerStep
    \/ PoolJoin
    \/ SaveComments
    \/ ExternalCreate

SpecOneCall == Init /\ [][NextOneCall]_vars

\* ------------------------------------------- one post, every forest
\* The sequential loop of a first call about to take a post, for every
\* threshold and either setting of strip_comments.
InitFlatten ==
    /\ comments = <<>>
    /\ posts = "generator"
    /\ subreddit = SubredditName
    /\ pc = "retrieve"
    /\ \E t \in Thresholds, strip \in BOOLEAN :
          args = [upvote_threshold |-> t, strip_comments |-> strip,
                  use_multiprocessing |-> FALSE, path |-> NoPath]
    /\ fetched = 0
    /\ cur = NoFlatten
    /\ tasks = <<>>
    /\ cpus = 0
    /\ files = [p \in Paths |-> Absent]
    /\ dataDir = FALSE
    /\ result = "running"
    /\ calls = 1
    /\ base = 0
    /\ unexpected = FALSE

\* The post the generator yields has any forest of at most MaxNodes nodes.
FlattenPost == fetched = 0 /\ \E n \in 0..MaxNodes : SeqEnter(ForestsOfSize(n))

\* The generator yields no further post.
FlattenDone == fetched # 0 /\ SeqExhausted

NextFlatten == FlattenPost \/ SeqLoopStep \/ FlattenDone

SpecFlatten == InitFlatten /\ [][NextFlatten]_vars

\* ================================================================ claims
Kind(f, i) == f.node[i].kind
CommentIds(f) == { i \in NodeIds(f) : Kind(f, i) = "Comment" }
PlaceholderIds(f) == { i \in NodeIds(f) : Kind(f, i) = "MoreComments" }

\* A finite forest of comments and placeholders: no other object, and no
\* placeholder that yields itself.
IsFiniteForest(f) ==
    \A i \in NodeIds(f) : /\ Kind(f, i) \in {"Comment", "MoreComments"}
                          /\ ~f.node[i].reyield

\* The rows the call in progress has added to self.comments.
RowsOfCall == SubSeq(comments, base + 1, Len(comments))

HasRowOf(rows, title) == \E j \in 1..Len(rows) : rows[j].post = title

\* C1: in a finite forest of N comments and M placeholders, no node is taken
\* from the work list twice, and when the work list is empty every comment
\* has been visited exactly once and every placeholder resolved exactly
\* once, so exactly N comments have been examined; the forests range over
\* every arrangement of comments and placeholders, hence over the orders in
\* which the work list hands them out.
C1_EachNodeExactlyOnce ==
    (cur.started /\ IsFiniteForest(cur.forest)) =>
        /\ \A i \in NodeIds(cur.forest) : cur.visits[i] <= 1
        /\ cur.list = <<>> =>
              /\ \A i \in NodeIds(cur.forest) : cur.visits[i] = 1
              /\ Cardinality({ i \in CommentIds(cur.forest) : cur.visits[i] = 1 })
                    = Cardinality(CommentIds(cur.forest))

\* A forest flattened to the end in which a placeholder yields a placeholder
\* that yields a comment.
C1_Witness ==
    /\ cur.started
    /\ IsFiniteForest(cur.forest)
    /\ cur.list = <<>>
    /\ \E i \in CommentIds(cur.forest) :
          /\ cur.forest.parent[i] # 0
          /\ cur.forest.parent[cur.forest.parent[i]] # 0
          /\ cur.visits[i] = 1

C3_EmptyForestOneNullRow ==
    (cur.started /\ CommentsList(cur.forest) = <<>>) =>
        comments = << [post |-> cur.title, author |-> <<>>,
                       comment |-> <<>>, upvotes |-> <<>>] >>

\* The post with no comment has been taken and the collection has returned.
C3_Witness ==
    /\ cur.started
    /\ cur.forest = EmptyForest
    /\ pc = "save"
    /\ Len(comments) = 1

\* C4: no placeholder is resolved more than once (which is what would make
\* the loop stop on a placeholder that yields itself).
C4_NoPlaceholderResolvedTwice ==
    cur.started =>
        \A i \in PlaceholderIds(cur.forest) : cur.visits[i] <= 1

\* C5: in parallel mode, when _retrieve_post_comments has returned, every
\* row a worker appended is in self.comments of the coordinating process.
C5_WorkerRowsReachWriter ==
    (pc = "save" /\ args.use_multiprocessing) =>
        \A i \in 1..Len(tasks) :
            \A k \in (base + 1)..Len(tasks[i].rows) :
                \E j \in 1..Len(comments) : comments[j] = tasks[i].rows[k]

\* C6: when the target file exists at the moment the writer opens it, the
\* run fails and the file is left as it was.
C6_WriterNeverOverwrites ==
    [][ (pc = "save" /\ pc' = "idle"
            /\ files[TargetPath(args.path)].state # "absent") =>
          /\ files'[TargetPath(args.path)] = files[TargetPath(args.path)]
          /\ result' # "ok" ]_vars

\* C7: once a work list has handed out an object that is neither a Comment
\* nor a MoreComments, the call never reaches the writer and writes no file;
\* in sequential mode it has ended at once (no further post is taken), in
\* parallel mode it ends as soon as starmap returns, and it ends with the
\* exception.
C7_UnexpectedObjectAbortsRun ==
    unexpected =>
        /\ pc \in {"pool", "idle"}
        /\ pc = "pool" => args.use_multiprocessing
        /\ pc = "idle" => result = "Exception: unexpected object"
        /\ \A p \in Paths : files[p].state # "csv"

\* A sequential call that had collected a row when it met the object.
C7_Witness ==
    /\ unexpected
    /\ pc = "idle"
    /\ result = "Exception: unexpected object"
    /\ comments # <<>>

\* C8 as claimed: after sequential collection, every post of the listing
\* has at least one row with its title.
C8_EveryPostHasARow ==
    (pc = "save" /\ ~args.use_multiprocessing) =>
        \A i \in 1..fetched : HasRowOf(comments, i)

HasQualifying(f, t) == \E i \in CommentIds(f) : f.node[i].score > t

\* C8 as amended: a post whose flattening has ended in sequential mode has
\* a row among the rows of the call exactly when its forest is empty or one
\* of its comments has a score above the threshold.
C8_PostHasARowIffEmptyOrQualifying ==
    (pc \in {"retrieve", "save"} /\ cur.started /\ cur.list = <<>>) =>
        (HasRowOf(RowsOfCall, cur.title)
            <=> (cur.forest = EmptyForest
                 \/ HasQualifying(cur.forest, args.upvote_threshold)))

\* Collection has returned; the first post has a row, the second, whose one
\* comment is not above the threshold, has none.
C8_Witness ==
    /\ pc = "save"
    /\ ~args.use_multiprocessing
    /\ fetched = 2
    /\ cur.forest # EmptyForest
    /\ ~HasQualifying(cur.forest, args.upvote_threshold)
    /\ HasRowOf(comments, 1)
    /\ ~HasRowOf(comments, 2)

Max(a, b) == IF a >= b THEN a ELSE b

\* C9: for every value of cpu_count() >= 1 the pool has max(1, cpu_count() - 2)
\* workers, at least one, and collection proceeds.
C9_PoolHasAtLeastOneWorker ==
    cpus >= 1 =>
        /\ PoolSize(cpus) = Max(1, cpus - ReservedCpus)
        /\ result # "ValueError"

\* C10: the file a call writes holds only the rows collected by that call.
C10_FileHoldsOnlyRowsOfItsCall ==
    [][ (pc = "save" /\ pc' = "idle") =>
          files'[TargetPath(args.path)].rows = RowsOfCall ]_vars

====
